---------------------------- MODULE Spec2Model ----------------------------
(***************************************************************************)
(* Model of the DLsite metadata source plugin (src/__init__.py): the       *)
(* lookup orchestrator identify, the query builder, the search pagination  *)
(* of _perform_query, the extractor _lookup_metadata with its blacklist    *)
(* gate, the identifier round trip between get_book_url and the identifier *)
(* extraction, and the cover retrieval download_cover.                     *)
(*                                                                         *)
(* Strings are sequences of pieces.  Every character the code inspects on  *)
(* its own (space, tab, '/', '.', '?', ',', '0', punctuation, letters      *)
(* whose case matters) is a piece of its own; a run of characters the code *)
(* only copies (such as "https:" or "product_id") may be written as one    *)
(* piece.                                                                  *)
(***************************************************************************)
EXTENDS Naturals, Sequences, FiniteSets

\* Python's None where a string is expected: a piece no real string holds
None == <<"<None>">>

\* Python's None where an object (a page tree, a list, a Metadata) is expected
NoneObj == [kind |-> "None"]

-----------------------------------------------------------------------------
(* Python string primitives used by the plugin *)

\* string.whitespace, the characters str.split() and str.strip() treat as blank
WHITESPACE == {" ", "\t", "\n"}

\* string.punctuation (the backquote, which a TLA+ string cannot hold and no
\* input of the model contains, is left out)
PUNCTUATION ==
    {"!", "\"", "#", "$", "%", "&", "'", "(", ")", "*", "+", ",", "-", ".",
     "/", ":", ";", "<", "=", ">", "?", "@", "[", "\\", "]", "^", "_", "{", "|", "}", "~"}

\* str.lower() on one character (the upper-case letters the inputs use)
LowerChar(c) ==
    CASE c = "A" -> "a" [] c = "C" -> "c" [] c = "E" -> "e" [] c = "G" -> "g"
      [] c = "I" -> "i" [] c = "M" -> "m" [] c = "N" -> "n" [] c = "O" -> "o"
      [] c = "P" -> "p" [] c = "R" -> "r" [] c = "S" -> "s" [] c = "T" -> "t"
      [] c = "U" -> "u" [] c = "V" -> "v" [] c = "B" -> "b" [] c = "J" -> "j"
      [] OTHER -> c

\* str.lower()
Lower(s) == [k \in 1..Len(s) |-> LowerChar(s[k])]

\* str.translate(str.maketrans("", "", chars)): delete every character of chars
Delete(s, chars) == SelectSeq(s, LAMBDA c : c \notin chars)

\* str.replace(old, new) for single characters
Replace(s, old, new) == [k \in 1..Len(s) |-> IF s[k] = old THEN new ELSE s[k]]

RECURSIVE LStrip(_, _)
\* str.lstrip(chars)
LStrip(s, chars) ==
    IF s # <<>> /\ Head(s) \in chars THEN LStrip(Tail(s), chars) ELSE s

RECURSIVE RStrip(_, _)
\* str.rstrip(chars)
RStrip(s, chars) ==
    IF s # <<>> /\ s[Len(s)] \in chars
    THEN RStrip(SubSeq(s, 1, Len(s) - 1), chars)
    ELSE s

\* str.strip()
Strip(s) == RStrip(LStrip(s, WHITESPACE), WHITESPACE)

RECURSIVE SplitAt(_, _, _)
\* str.split(sep) for a one-character separator: every occurrence cuts, empty
\* fields are kept; cur is the field being read
SplitAt(s, sep, cur) ==
    IF s = <<>> THEN <<cur>>
    ELSE IF Head(s) = sep THEN <<cur>> \o SplitAt(Tail(s), sep, <<>>)
    ELSE SplitAt(Tail(s), sep, Append(cur, Head(s)))

\* str.split(sep)
Split(s, sep) == SplitAt(s, sep, <<>>)

RECURSIVE SplitBlankAt(_, _)
\* str.split() without separator: runs of whitespace cut, no empty fields
SplitBlankAt(s, cur) ==
    IF s = <<>> THEN (IF cur = <<>> THEN <<>> ELSE <<cur>>)
    ELSE IF Head(s) \in WHITESPACE
         THEN (IF cur = <<>> THEN <<>> ELSE <<cur>>) \o SplitBlankAt(Tail(s), <<>>)
         ELSE SplitBlankAt(Tail(s), Append(cur, Head(s)))

\* str.split()
SplitBlank(s) == SplitBlankAt(s, <<>>)

RECURSIVE Join(_, _)
\* sep.join(parts)
Join(parts, sep) ==
    IF parts = <<>> THEN <<>>
    ELSE IF Len(parts) = 1 THEN parts[1]
    ELSE parts[1] \o sep \o Join(Tail(parts), sep)

\* str.rsplit(sep, 1)[-1]: what follows the last occurrence of sep
AfterLast(s, sep) ==
    LET hits == {k \in 1..Len(s) : s[k] = sep}
    IN  IF hits = {} THEN s
        ELSE SubSeq(s, (CHOOSE k \in hits : \A j \in hits : j <= k) + 1, Len(s))

\* the elements of a sequence
Range(s) == {s[k] : k \in 1..Len(s)}

-----------------------------------------------------------------------------
(* Configuration and URL templates *)

\* BASE_URL
BASE_URL == <<"https:", "/", "/", "www", ".", "dlsite", ".", "com">>

\* the keys of COUNTRIES, the values the country option can take
COUNTRIES ==
    {"ja_JP", "en_US", "zh_CN", "zh_TW", "ko_KR", "es_ES", "de_DE", "fr_FR",
     "id_ID", "it_IT", "pt_BR", "sv_SE", "th_TH", "vi_VN"}

\* dict.get(key, None) on the identifiers mapping, a function from keys to strings
DictGet(d, key) == IF key \in DOMAIN d THEN d[key] ELSE None

\* truth value of an optional string: None and "" are false
Truthy(s) == s # None /\ s # <<>>

\* the f-string shared by get_book_url and identify
ProductUrl(product_id, country) ==
    BASE_URL \o <<"/", "books", "/", "work", "/", "=", "/", "product_id", "/">>
             \o product_id \o <<"?", "locale", "=">> \o country

\* get_book_url: ("product_id", id, url), or None (here the empty tuple)
\* without a store identifier
get_book_url(identifiers, country) ==
    LET product_id == DictGet(identifiers, "dlsite")
    IN  IF Truthy(product_id)
        THEN <<<<"product_id">>, product_id, ProductUrl(product_id, country)>>
        ELSE <<>>

\* urllib.parse.quote on one character: letters, digits, "_.-~" and "/" are
\* kept, anything else is percent-encoded
QuoteChar(c) ==
    CASE c = " "  -> "%20"
      [] c = "\t" -> "%09"
      [] c = "?"  -> "%3F"
      [] c = ","  -> "%2C"
      [] OTHER    -> c

\* urllib.parse.quote
quote(s) == [k \in 1..Len(s) |-> QuoteChar(s[k])]

\* _get_search_url
_get_search_url(search_str) ==
    BASE_URL \o <<"/", "maniax", "/", "fsr", "/", "=", "/", "language", "/", "jp",
                  "/", "sex_category%5B0%5D", "/", "male", "/", "keyword", "/">>
             \o quote(search_str)

\* the identifier _lookup_metadata derives from the URL (line 476)
\* mutant: the query string is not cut off
ExtractIdentifierMutNoQuery(url) == Split(AfterLast(url, "/"), ".")[1]

\* url.rsplit('/', 1)[-1].split('.')[0].split('?')[0]
ExtractIdentifier(url) == Split(Split(AfterLast(url, "/"), ".")[1], "?")[1]

-----------------------------------------------------------------------------
(* Query builder *)

\* Source.get_title_tokens(title, strip_joiners=False, strip_subtitle=False),
\* the host's tokenizer as line 397 calls it: the whitespace-delimited tokens
\* of the title (the titles tried hold letters, digits and blanks only, which
\* it passes through unchanged); None and "" give none
get_title_tokens(title) == IF title = None THEN <<>> ELSE SplitBlank(title)

\* mutant: the leading zeroes are removed whatever the option says
_generate_queryMutAlways(title, authors, remove_leading_zeroes) ==
    LET tokens == get_title_tokens(title)
        kept   == [k \in 1..Len(tokens) |-> LStrip(tokens[k], {"0"})]
    IN  Join(kept, <<" ">>)
        \o Join([k \in 1..Len(authors) |-> <<" ">> \o authors[k]], <<>>)

\* _generate_query
_generate_query(title, authors, remove_leading_zeroes) ==
    LET tokens == get_title_tokens(title)
        kept   == [k \in 1..Len(tokens) |->
                     IF remove_leading_zeroes THEN LStrip(tokens[k], {"0"})
                     ELSE tokens[k]]
    IN  Join(kept, <<" ">>)
        \o Join([k \in 1..Len(authors) |-> <<" ">> \o authors[k]], <<>>)

-----------------------------------------------------------------------------
(* Blacklists *)

\* {x.strip().lower() for x in pref.split(",")}
BlacklistSet(pref) == {Lower(Strip(x)) : x \in Range(Split(pref, ","))}

\* _check_title_blacklist: the blacklisted words found in the title.  The None
\* returned for an empty option is the empty set here: the only use is the
\* truth test of line 544, false for both.
_check_title_blacklist(title, title_blacklist) ==
    IF title_blacklist = <<>> THEN {}
    ELSE LET title_str == Delete(title, PUNCTUATION)
         IN  BlacklistSet(title_blacklist) \cap Range(Split(Lower(title_str), " "))

\* _check_tag_blacklist: the blacklisted tags found among the tags (None as
\* the empty set, as above; truth test at line 549)
_check_tag_blacklist(tags, tag_blacklist) ==
    IF tag_blacklist = <<>> THEN {}
    ELSE BlacklistSet(tag_blacklist) \cap {Lower(x) : x \in Range(tags)}

-----------------------------------------------------------------------------
(* Page fetcher and classifier *)

\* _get_webpage on what the site answers: (tree, is_search).  A transport or
\* parse error gives (None, False); otherwise is_search tells whether the final
\* URL holds "/keyword".
_get_webpage(resp) ==
    IF resp.kind = "error" THEN <<NoneObj, FALSE>>
    ELSE <<resp.tree, resp.keyword_in_final_url>>

\* _get_search_matches: the hrefs of the result anchors when the page holds
\* the result-list container; otherwise the function falls off its end and
\* returns None
_get_search_matches(page) ==
    IF page.search_result_list
    THEN [kind |-> "list", items |-> page.hrefs]
    ELSE NoneObj

\* results[: num_matches]
Truncate(items, n) == SubSeq(items, 1, IF Len(items) < n THEN Len(items) ELSE n)

\* the loop test of _perform_query
WhileCond(items, i, num_matches) == Len(items) < num_matches /\ i < num_matches

-----------------------------------------------------------------------------
(* Metadata extractor *)

\* the tags of a page: "group." + circle, then "genre." + each genre anchor,
\* commas replaced by spaces
PageTags(tree) ==
    LET group  == IF tree.circle = None THEN <<>>
                  ELSE << <<"group", ".">> \o tree.circle >>
        genres == [k \in 1..Len(tree.genres) |-> <<"genre", ".">> \o tree.genres[k]]
        tags   == group \o genres
    IN  [k \in 1..Len(tags) |-> Replace(tags[k], ",", " ")]

\* the cover URL put in the cache: "https:" + srcset
CoverUrl(tree) == <<"https:">> \o tree.cover_srcset

\* _lookup_metadata on the answer to the fetch of url.  result: "none" (no
\* page, a search page, or a blacklist hit), "raise" (the title element is
\* missing: title_elements[0] raises IndexError) or "metadata"; cache_put
\* tells whether the cover URL was cached under the identifier, which
\* happens before the blacklist gate.
_lookup_metadata(url, resp, title_blacklist, tag_blacklist) ==
    LET got       == _get_webpage(resp)
        tree      == got[1]
        is_search == got[2]
    IN  IF tree = NoneObj \/ is_search
        THEN [result |-> "none", cache_put |-> FALSE]
        ELSE IF tree.title = None
        THEN [result |-> "raise", cache_put |-> FALSE]
        ELSE
          LET title == Strip(tree.title)
              id    == ExtractIdentifier(url)
              tags  == PageTags(tree)
              put   == tree.cover_srcset # None
          IN  IF _check_title_blacklist(title, title_blacklist) # {}
              THEN [result |-> "none", cache_put |-> put]
              ELSE IF _check_tag_blacklist(tags, tag_blacklist) # {}
              THEN [result |-> "none", cache_put |-> put]
              ELSE [result |-> "metadata", cache_put |-> put,
                    title |-> title, identifiers |-> [dlsite |-> id],
                    tags |-> tags]

-----------------------------------------------------------------------------
(* Inputs: option values, call arguments and what the site answers *)

\* largest num_matches option value tried
MaxMatches == 3

\* title_blacklist option values: "" (the default) and "omnibus"
TitleBlacklists == {<<>>, <<"o", "m", "n", "i", "b", "u", "s">>}

\* tag_blacklist option values: "" (the default) and "genre.ntr"
TagBlacklists == {<<>>, <<"g", "e", "n", "r", "e", ".", "n", "t", "r">>}

\* country option values used by the lookups
LookupCountries == {"ja_JP"}

\* the option values of one installation
Prefs ==
    [country : {<<c>> : c \in LookupCountries},
     num_matches : 1..MaxMatches,
     title_blacklist : TitleBlacklists,
     tag_blacklist : TagBlacklists,
     remove_leading_zeroes : BOOLEAN]

\* (title, authors) pairs passed to identify: (None, None) and
\* ("Vol 007", ["J S"]); an absent author list is the empty list, both false
\* at line 400
ArgTitleAuthors ==
    {<<None, <<>>>>,
     <<<<"V", "o", "l", " ", "0", "0", "7">>, << <<"J", " ", "S">> >>>>}

\* identifiers mappings passed to identify: {} and {"dlsite": "RJ01"}
ArgIdentifiers == {<<>>, [dlsite |-> <<"RJ", "0", "1">>]}

\* the href of a search result: a product page of the store
Href(id) ==
    BASE_URL \o <<"/", "maniax", "/", "work", "/", "=", "/", "product_id", "/">>
             \o id \o <<".", "html">>

H1 == Href(<<"RJ", "0", "1">>)
H2 == Href(<<"RJ", "0", "2">>)

\* the product identifiers of the catalog entries the store holds
CatalogIds == {<<"RJ", "0", "1">>, <<"RJ", "0", "2">>}

\* the catalog entries whose product page the store can answer a URL with: at
\* a product URL the entry the URL was built for, and at any other URL (a
\* search the store redirects to a product page) whichever entry it picks
Served(url, country) ==
    LET named == {id \in CatalogIds :
                    url = Href(id) \/ url = ProductUrl(id, country)}
    IN  IF named # {} THEN named ELSE CatalogIds

\* search-result documents: without the result-list container, or with it
\* and zero, one or two result anchors
SearchTrees ==
    {[kind |-> "tree", search_result_list |-> FALSE, hrefs |-> <<>>]}
    \cup {[kind |-> "tree", search_result_list |-> TRUE, hrefs |-> h] :
            h \in {<<>>, <<H1>>, <<H1, H2>>}}

\* page titles: "The Great Omnibus, Vol. 1", "Great<TAB>Omnibus", " Plain"
T_Omnibus ==
    <<"T", "h", "e", " ", "G", "r", "e", "a", "t", " ", "O", "m", "n", "i", "b",
      "u", "s", ",", " ", "V", "o", "l", ".", " ", "1">>
T_Tab == <<"G", "r", "e", "a", "t", "\t", "O", "m", "n", "i", "b", "u", "s">>
T_Plain == <<" ", "P", "l", "a", "i", "n">>

\* the srcset of a cover image element
Srcset == <<"/", "/", "img", ".", "dlsite", ".", "jp", "/", "cover", ".", "jpg">>

\* product documents: the three titles without tags and with a cover; one
\* with a circle, the genres "NTR" and "a,b" and no cover; one without the
\* title element, on which the extraction raises
ProductTrees ==
    {[kind |-> "tree", title |-> t, circle |-> None, genres |-> <<>>,
      cover_srcset |-> Srcset] : t \in {T_Omnibus, T_Tab, T_Plain}}
    \cup {[kind |-> "tree", title |-> T_Plain, circle |-> <<"C", "i">>,
           genres |-> << <<"N", "T", "R">>, <<"a", ",", "b">> >>,
           cover_srcset |-> None],
          [kind |-> "tree", title |-> None, circle |-> None, genres |-> <<>>,
           cover_srcset |-> Srcset]}

\* what a fetch can bring: an error, a search page, a product page
Responses ==
    {[kind |-> "error"]}
    \cup {[kind |-> "page", keyword_in_final_url |-> TRUE, tree |-> t] :
            t \in SearchTrees}
    \cup {[kind |-> "page", keyword_in_final_url |-> FALSE, tree |-> t] :
            t \in ProductTrees}

-----------------------------------------------------------------------------
(* State *)

VARIABLES
    prefs,          \* self.prefs
    pc,             \* where the call stands: idle, paginate, lookup, done, raised
    title,          \* identify's title argument
    authors,        \* identify's authors argument
    identifiers,    \* identify's identifiers argument
    query,          \* the query of line 330 (None before it is built)
    results,        \* _perform_query's results
    i,              \* _perform_query's i
    urls,           \* identify's urls
    index,          \* identify's index
    result_queue,   \* the records put on result_queue, in order
    cover_cache,    \* the host's identifier -> cover URL cache, as pairs
    exception,      \* the exception that left identify ("" when none did)
    aborted,        \* identify returned from its except clause (line 343)
    fetched,        \* history: the URLs given to _get_webpage, in order
    fetch_kinds,    \* history: what each fetch brought: error, search, product
    search_urls,    \* history: the URLs _get_search_url built, in order
    lookups,        \* history: the candidate positions _lookup_metadata ran on
    lookup_results, \* history: how each of these runs ended: none, raise, metadata
    emitted_urls,   \* history: the URL each record of result_queue came from
    emitted_pages,  \* history: the catalog entry each of these records was read from
    dc,             \* where download_cover stands: none, identify, done, raised
    cover_url,      \* download_cover's cover_url
    cover_sink,     \* the items download_cover put on its result_queue, in order
    image_fetches,  \* history: the URLs given to open_novisit and what each brought
    arg,            \* the input of a function applied on its own
    ret             \* its result

\* the variables of a lookup
lookupVars ==
    <<prefs, pc, title, authors, identifiers, query, results, i, urls, index,
      result_queue, cover_cache, exception, aborted, fetched, fetch_kinds,
      search_urls, lookups, lookup_results, emitted_urls, emitted_pages>>

\* the variables of download_cover
coverVars == <<dc, cover_url, cover_sink, image_fetches>>

\* the variables of a function applied on its own
fnVars == <<arg, ret>>

vars == <<lookupVars, coverVars, fnVars>>

\* an empty Python list
EmptyList == [kind |-> "list", items |-> <<>>]

\* the state after construction, before any call
Idle ==
    /\ pc = "idle"
    /\ title = None
    /\ authors = <<>>
    /\ identifiers = <<>>
    /\ query = None
    /\ results = EmptyList
    /\ i = 0
    /\ urls = <<>>
    /\ index = 0
    /\ result_queue = <<>>
    /\ cover_cache = {}
    /\ exception = ""
    /\ aborted = FALSE
    /\ fetched = <<>>
    /\ fetch_kinds = <<>>
    /\ search_urls = <<>>
    /\ lookups = <<>>
    /\ lookup_results = <<>>
    /\ emitted_urls = <<>>
    /\ emitted_pages = <<>>

\* no call of download_cover was made
NoCover ==
    /\ dc = "none"
    /\ cover_url = None
    /\ cover_sink = <<>>
    /\ image_fetches = <<>>

Init ==
    /\ prefs \in Prefs
    /\ Idle
    /\ NoCover
    /\ arg = NoneObj
    /\ ret = NoneObj

\* what a fetch brought, as _get_webpage classifies it
FetchKind(resp) ==
    IF _get_webpage(resp)[1] = NoneObj THEN "error"
    ELSE IF _get_webpage(resp)[2] THEN "search"
    ELSE "product"

-----------------------------------------------------------------------------
(* identify, known-identifier flow (lines 318-328) *)

\* the arguments of a call of identify: any, or the ones download_cover
\* passes on at line 370
Passed(ta, ids) ==
    dc = "identify" => (ta = <<title, authors>> /\ ids = identifiers)

\* truth value of a Python tuple: false only when empty
TupleTruthy(t) == Len(t) # 0

\* mutant: the probe's tree decides, a failed probe gives no candidate
KnownCandidatesMutTree(url, product_id_urls) ==
    IF product_id_urls[1] # NoneObj THEN <<url>> ELSE <<>>

\* the candidates after the product-page probe: line 326 tests the tuple
\* _get_webpage returned, not the tree in it
KnownCandidates(url, product_id_urls) ==
    IF TupleTruthy(product_id_urls) THEN <<url>> ELSE <<>>

IdentifyKnown ==
    \E ta \in ArgTitleAuthors, ids \in ArgIdentifiers, resp \in Responses :
        LET product_id == DictGet(ids, "dlsite")
            url        == ProductUrl(product_id, prefs.country)
        IN  /\ pc = "idle"
            /\ Passed(ta, ids)
            /\ Truthy(product_id)
            /\ title' = ta[1] /\ authors' = ta[2] /\ identifiers' = ids
            /\ fetched' = Append(fetched, url)
            /\ fetch_kinds' = Append(fetch_kinds, FetchKind(resp))
            /\ urls' = KnownCandidates(url, _get_webpage(resp))
            /\ index' = 0
            /\ pc' = "lookup"
            /\ UNCHANGED <<prefs, query, results, i, result_queue, cover_cache,
                           exception, aborted, search_urls, lookups,
                           lookup_results, emitted_urls, emitted_pages, coverVars,
                           fnVars>>

-----------------------------------------------------------------------------
(* identify, search flow (lines 329-334) and _perform_query *)

\* mutant: the redirect is not recognised, the search gives no candidate
RedirectCandidatesMutNone(url) == <<>>

\* the candidates of a search redirected straight to a product page (line 438)
RedirectCandidates(url) == <<url>>

\* after results was assigned or extended: the loop test of line 444 and, when
\* it fails, the return of line 451.  len(None) raises TypeError.
LoopTest(res, n, num_matches) ==
    IF res.kind = "None"
    THEN [pc |-> "raised", exception |-> "TypeError", results |-> res, i |-> n,
          urls |-> <<>>]
    ELSE IF WhileCond(res.items, n, num_matches)
    THEN [pc |-> "paginate", exception |-> "", results |-> res, i |-> n,
          urls |-> <<>>]
    ELSE [pc |-> "lookup", exception |-> "", results |-> res, i |-> n,
          urls |-> Truncate(res.items, num_matches)]

\* _perform_query down to the first loop test (lines 428-444)
PerformQueryFirst(url, resp, num_matches) ==
    LET got == _get_webpage(resp)
    IN  IF got[1] = NoneObj
        THEN [pc |-> "lookup", exception |-> "", results |-> EmptyList, i |-> 0,
              urls |-> <<>>]
        ELSE IF ~got[2]
        THEN [pc |-> "lookup", exception |-> "", results |-> EmptyList, i |-> 0,
              urls |-> RedirectCandidates(url)]
        ELSE LoopTest(_get_search_matches(got[1]), 1, num_matches)

\* one pass of the while loop (lines 445-449) and the next loop test.  The
\* assert of line 447 raises AssertionError (a parsed document is true);
\* list.extend(None) raises TypeError.
PerformQueryPass(res, n, resp, num_matches) ==
    LET got == _get_webpage(resp)
    IN  IF ~(got[1] # NoneObj /\ got[2])
        THEN [pc |-> "raised", exception |-> "AssertionError", results |-> res,
              i |-> n, urls |-> <<>>]
        ELSE LET more == _get_search_matches(got[1])
             IN  IF more.kind = "None"
                 THEN [pc |-> "raised", exception |-> "TypeError",
                       results |-> res, i |-> n, urls |-> <<>>]
                 ELSE LoopTest([kind |-> "list", items |-> res.items \o more.items],
                               n + 1, num_matches)

IdentifySearch ==
    \E ta \in ArgTitleAuthors, ids \in ArgIdentifiers, resp \in Responses :
        LET q   == _generate_query(ta[1], ta[2], prefs.remove_leading_zeroes)
            url == _get_search_url(q)
            nxt == PerformQueryFirst(url, resp, prefs.num_matches)
        IN  /\ pc = "idle"
            /\ Passed(ta, ids)
            /\ ~Truthy(DictGet(ids, "dlsite"))
            /\ title' = ta[1] /\ authors' = ta[2] /\ identifiers' = ids
            /\ query' = q
            /\ index' = 0
            /\ IF q = <<>>
               THEN /\ pc' = "lookup"
                    /\ urls' = <<>>
                    /\ UNCHANGED <<results, i, exception, fetched, fetch_kinds,
                                   search_urls>>
               ELSE /\ pc' = nxt.pc
                    /\ urls' = nxt.urls
                    /\ results' = nxt.results
                    /\ i' = nxt.i
                    /\ exception' = nxt.exception
                    /\ fetched' = Append(fetched, url)
                    /\ fetch_kinds' = Append(fetch_kinds, FetchKind(resp))
                    /\ search_urls' = Append(search_urls, url)
            /\ UNCHANGED <<prefs, result_queue, cover_cache, aborted, lookups,
                           lookup_results, emitted_urls, emitted_pages, coverVars,
                           fnVars>>

Paginate ==
    \E resp \in Responses :
        LET url == _get_search_url(query)
            nxt == PerformQueryPass(results, i, resp, prefs.num_matches)
        IN  /\ pc = "paginate"
            /\ pc' = nxt.pc
            /\ urls' = nxt.urls
            /\ results' = nxt.results
            /\ i' = nxt.i
            /\ exception' = nxt.exception
            /\ fetched' = Append(fetched, url)
            /\ fetch_kinds' = Append(fetch_kinds, FetchKind(resp))
            /\ search_urls' = Append(search_urls, url)
            /\ UNCHANGED <<prefs, title, authors, identifiers, query, index,
                           result_queue, cover_cache, aborted, lookups,
                           lookup_results, emitted_urls, emitted_pages, coverVars,
                           fnVars>>

-----------------------------------------------------------------------------
(* identify, the loop over the candidates (lines 336-353) *)

\* cache_identifier_to_cover_url: the pair of the identifier is replaced
CachePut(cache, id, url) == {p \in cache : p[1] # id} \cup {<<id, url>>}

\* cached_identifier_to_cover_url: the cached URL, or None
CacheGet(cache, id) ==
    IF \E p \in cache : p[1] = id
    THEN (CHOOSE p \in cache : p[1] = id)[2]
    ELSE None

\* mutant: the rank is not taken from the loop index
EmitMutRank(metadata, idx, candidates) ==
    [kind |-> "Metadata",
     title |-> metadata.title,
     identifiers |-> metadata.identifiers,
     tags |-> metadata.tags,
     source_relevance |-> 0,
     isbn |-> IF Len(candidates) # 1 THEN metadata.identifiers.dlsite ELSE None]

\* the record put on the queue (lines 346-349): rank and, with more than one
\* candidate, the isbn field
Emit(metadata, idx, candidates) ==
    [kind |-> "Metadata",
     title |-> metadata.title,
     identifiers |-> metadata.identifiers,
     tags |-> metadata.tags,
     source_relevance |-> idx,
     isbn |-> IF Len(candidates) # 1 THEN metadata.identifiers.dlsite ELSE None]

\* mutant: the except clause logs and goes on with the next candidate
OnLookupExceptionMutContinue == "continue"

\* what the except clause of lines 341-343 does with the loop
OnLookupException == "return"

Lookup ==
    \E resp \in Responses :
        LET url == urls[index + 1]
            out == _lookup_metadata(url, resp, prefs.title_blacklist,
                                    prefs.tag_blacklist)
        IN  /\ pc = "lookup"
            /\ index < Len(urls)
            /\ fetched' = Append(fetched, url)
            /\ fetch_kinds' = Append(fetch_kinds, FetchKind(resp))
            /\ lookups' = Append(lookups, index)
            /\ lookup_results' = Append(lookup_results, out.result)
            /\ cover_cache' =
                 IF out.cache_put
                 THEN CachePut(cover_cache, ExtractIdentifier(url), CoverUrl(resp.tree))
                 ELSE cover_cache
            /\ IF out.result = "raise"
               THEN /\ aborted' = TRUE
                    /\ pc' = IF OnLookupException = "return" THEN "done" ELSE pc
                    /\ index' = IF OnLookupException = "return" THEN index
                                ELSE index + 1
                    /\ UNCHANGED <<result_queue, emitted_urls, emitted_pages>>
               ELSE IF out.result = "metadata"
               THEN /\ result_queue' = Append(result_queue, Emit(out, index, urls))
                    /\ emitted_urls' = Append(emitted_urls, url)
                    /\ \E entry \in Served(url, prefs.country) :
                         emitted_pages' =
                           Append(emitted_pages,
                                  [product_id |-> entry,
                                   cover |-> out.cache_put])
                    /\ index' = index + 1
                    /\ UNCHANGED <<pc, aborted>>
               ELSE /\ index' = index + 1
                    /\ UNCHANGED <<pc, aborted, result_queue, emitted_urls,
                                   emitted_pages>>
            /\ UNCHANGED <<prefs, title, authors, identifiers, query, results, i,
                           urls, exception, search_urls, coverVars, fnVars>>

\* the loop is over: identify returns (line 353)
Return ==
    /\ pc = "lookup"
    /\ index = Len(urls)
    /\ pc' = "done"
    /\ UNCHANGED <<prefs, title, authors, identifiers, query, results, i, urls,
                   index, result_queue, cover_cache, exception, aborted, fetched,
                   fetch_kinds, search_urls, lookups, lookup_results,
                   emitted_urls, emitted_pages, coverVars,
                           fnVars>>

Next == IdentifyKnown \/ IdentifySearch \/ Paginate \/ Lookup \/ Return

Spec == Init /\ [][Next]_vars

-----------------------------------------------------------------------------
(* download_cover (lines 355-387) *)

\* get_cached_cover_url: the cached cover URL of the store identifier of the
\* mapping, None without one.  Line 376 passes a Metadata object, on which
\* get("dlsite", None) finds no attribute of that name and gives the default.
get_cached_cover_url(ids, cache) ==
    LET product_id == DictGet(ids, "dlsite")
    IN  IF product_id # None THEN CacheGet(cache, product_id) ELSE None

\* what the image host can answer to a fetch: an error, or the image bytes
ImageResponses == {"error", "bytes"}

\* br.open_novisit(cover_url).read(): None is no URL and raises
open_novisit(url, img) == IF url = None THEN "error" ELSE img

\* lines 377-387, reached with the cover URL the lines before them left: the
\* fetch is attempted whatever it is, and the image is put when it succeeds
FetchCover(url, img) ==
    /\ cover_url' = url
    /\ image_fetches' =
         Append(image_fetches, [url |-> url, result |-> open_novisit(url, img)])
    /\ cover_sink' =
         IF open_novisit(url, img) = "bytes"
         THEN Append(cover_sink, "cover") ELSE cover_sink
    /\ dc' = "done"

\* lines 366-370: on a cache hit the rest of the function runs at
\* once; on a miss identify is called with a queue of its own
DownloadCover ==
    \E ta \in ArgTitleAuthors, ids \in ArgIdentifiers, img \in ImageResponses :
        LET url == get_cached_cover_url(ids, cover_cache)
        IN  /\ dc = "none"
            /\ pc \in {"idle", "done", "raised"}
            /\ title' = ta[1] /\ authors' = ta[2] /\ identifiers' = ids
            /\ query' = None /\ results' = EmptyList /\ i' = 0
            /\ urls' = <<>> /\ index' = 0
            /\ result_queue' = <<>>
            /\ exception' = "" /\ aborted' = FALSE
            /\ fetched' = <<>> /\ fetch_kinds' = <<>> /\ search_urls' = <<>>
            /\ lookups' = <<>> /\ lookup_results' = <<>>
            /\ emitted_urls' = <<>> /\ emitted_pages' = <<>>
            /\ IF Truthy(url)
               THEN /\ FetchCover(url, img)
                    /\ pc' = "done"
               ELSE /\ cover_url' = url
                    /\ dc' = "identify"
                    /\ pc' = "idle"
                    /\ UNCHANGED <<cover_sink, image_fetches>>
            /\ UNCHANGED <<prefs, cover_cache, fnVars>>

\* identify returned: lines 371-387
DownloadCoverResume ==
    \E img \in ImageResponses :
        /\ dc = "identify"
        /\ pc = "done"
        /\ IF result_queue = <<>>
           THEN /\ dc' = "done"
                /\ UNCHANGED <<cover_url, cover_sink, image_fetches>>
           ELSE FetchCover(get_cached_cover_url(Head(result_queue), cover_cache),
                           img)
        /\ UNCHANGED <<lookupVars, fnVars>>

\* identify raised at line 370: nothing in download_cover catches it
DownloadCoverRaise ==
    /\ dc = "identify"
    /\ pc = "raised"
    /\ dc' = "raised"
    /\ UNCHANGED <<lookupVars, cover_url, cover_sink, image_fetches, fnVars>>

CoverNext ==
    \/ IdentifyKnown \/ IdentifySearch \/ Paginate \/ Lookup \/ Return
    \/ DownloadCover \/ DownloadCoverResume \/ DownloadCoverRaise

\* a lookup, or none, and then a cover retrieval
CoverSpec == Init /\ [][CoverNext]_vars

-----------------------------------------------------------------------------
(* The pure functions applied on their own, over all short inputs *)

RECURSIVE StringsUpTo(_, _)
\* every string of at most n characters of chars
StringsUpTo(chars, n) ==
    IF n = 0 THEN {<<>>}
    ELSE LET shorter == StringsUpTo(chars, n - 1)
         IN  shorter \cup {Append(x, c) : x \in shorter, c \in chars}

\* the defaults of the options (lines 246-287), the country as its key
DefaultPrefs ==
    [country |-> <<"ja_JP">>, num_matches |-> 1, title_blacklist |-> <<>>,
     tag_blacklist |-> <<>>, remove_leading_zeroes |-> FALSE]

\* longest product identifier tried
MaxIdLen == 3

\* the characters of the product identifiers tried
IdChars == {"R", "1", ".", "?", "/"}

RoundTripInit ==
    /\ prefs \in {[DefaultPrefs EXCEPT !.country = <<c>>] : c \in COUNTRIES}
    /\ Idle
    /\ NoCover
    /\ arg \in [kind : {"identifiers"},
                dlsite : StringsUpTo(IdChars, MaxIdLen) \ {<<>>}]
    /\ ret = NoneObj

\* get_book_url on {"dlsite": I} under the configured country
BuildProductUrl ==
    /\ arg.kind = "identifiers"
    /\ ret = NoneObj
    /\ ret' = [kind |-> "url",
               url |-> get_book_url([dlsite |-> arg.dlsite], prefs.country)[3]]
    /\ UNCHANGED <<lookupVars, coverVars, arg>>

\* the identifier _lookup_metadata derives from that URL (line 476)
ParseIdentifier ==
    /\ ret.kind = "url"
    /\ ret' = [kind |-> "parsed", url |-> ret.url, id |-> ExtractIdentifier(ret.url)]
    /\ UNCHANGED <<lookupVars, coverVars, arg>>

RoundTripNext == BuildProductUrl \/ ParseIdentifier

RoundTripSpec == RoundTripInit /\ [][RoundTripNext]_vars

\* longest title given to _generate_query
MaxQueryTitleLen == 4

\* the characters of these titles
QueryChars == {"0", "7", "a", " "}

\* the author lists given to _generate_query: none, ["J"], ["J S"], ["J", "K S"]
QueryAuthorLists ==
    {<<>>, << <<"J">> >>, << <<"J", " ", "S">> >>,
     << <<"J">>, <<"K", " ", "S">> >>}

QueryInit ==
    /\ prefs \in {[DefaultPrefs EXCEPT !.remove_leading_zeroes = b] : b \in BOOLEAN}
    /\ Idle
    /\ NoCover
    /\ arg \in [kind : {"query"},
                title : StringsUpTo(QueryChars, MaxQueryTitleLen) \cup {None},
                authors : QueryAuthorLists]
    /\ ret = NoneObj

\* _generate_query(title, authors)
GenerateQuery ==
    /\ arg.kind = "query"
    /\ ret = NoneObj
    /\ ret' = [kind |-> "query",
               query |-> _generate_query(arg.title, arg.authors,
                                         prefs.remove_leading_zeroes)]
    /\ UNCHANGED <<lookupVars, coverVars, arg>>

QueryNext == GenerateQuery

QuerySpec == QueryInit /\ [][QueryNext]_vars

\* longest page title given to the extractor
MaxPageTitleLen == 3

\* the characters of these page titles
PageTitleChars == {"a", "B", " ", "\t", ","}

\* title_blacklist option values tried on them: "b" and "A, b"
PageTitleBlacklists == {<<"b">>, <<"A", ",", " ", "b">>}

\* a product page with this title and nothing else
PageTitled(t) ==
    [kind |-> "page", keyword_in_final_url |-> FALSE,
     tree |-> [kind |-> "tree", title |-> t, circle |-> None, genres |-> <<>>,
               cover_srcset |-> None]]

BlacklistInit ==
    /\ prefs \in {[DefaultPrefs EXCEPT !.title_blacklist = b] :
                    b \in PageTitleBlacklists}
    /\ Idle
    /\ NoCover
    /\ arg \in [kind : {"page"}, title : StringsUpTo(PageTitleChars, MaxPageTitleLen)]
    /\ ret = NoneObj

\* _lookup_metadata on a product page with the title
ExtractPage ==
    /\ arg.kind = "page"
    /\ ret = NoneObj
    /\ ret' = [kind |-> "extracted",
               result |-> _lookup_metadata(H1, PageTitled(arg.title),
                                           prefs.title_blacklist,
                                           prefs.tag_blacklist).result]
    /\ UNCHANGED <<lookupVars, coverVars, arg>>

BlacklistNext == ExtractPage

BlacklistSpec == BlacklistInit /\ [][BlacklistNext]_vars

-----------------------------------------------------------------------------
(* Properties *)

\* the words of a title as section 4.4 reads them: punctuation stripped,
\* lowercased, split on whitespace
TitleWords(t) == Range(SplitBlank(Lower(Delete(t, PUNCTUATION))))

\* the call holds a store identifier
KnownCall == Truthy(DictGet(identifiers, "dlsite"))

\* how often x occurs in a sequence
CountOf(seq, x) == Cardinality({k \in 1..Len(seq) : seq[k] = x})

\* what the fetch of the j-th _lookup_metadata run brought (the lookups' fetches
\* are the last ones)
LookupFetchKind(j) == fetch_kinds[Len(fetch_kinds) - Len(lookups) + j]

\* C1: every record on the result sink has a title whose punctuation-stripped,
\* lowercased words share no element with the title-blacklist set, and tags
\* whose lowercased forms share no element with the tag-blacklist set.
C1_EmittedPassBlacklists ==
    \A k \in 1..Len(result_queue) :
        /\ TitleWords(result_queue[k].title)
             \cap BlacklistSet(prefs.title_blacklist) = {}
        /\ {Lower(x) : x \in Range(result_queue[k].tags)}
             \cap BlacklistSet(prefs.tag_blacklist) = {}

RECURSIVE Repeat(_, _)
\* the list repeated n times
Repeat(list, n) == IF n = 0 THEN <<>> ELSE list \o Repeat(list, n - 1)

\* the result listings a search page can show
Listings == {t.hrefs : t \in {x \in SearchTrees : x.hrefs # <<>>}}

\* C3: when every fetch of the results page lists the same k results, k less
\* than num_matches, and every candidate extracts successfully, identify emits
\* exactly k records, ranked 0 .. k-1, and extracts no URL twice.
C3_ListedResultsOnce ==
    \A list \in Listings :
        ( /\ pc = "done"
          /\ exception = ""
          /\ search_urls # <<>>
          /\ Len(list) < prefs.num_matches
          /\ \A k \in 1..Len(search_urls) : fetch_kinds[k] = "search"
          /\ results.items = Repeat(list, Len(search_urls))
          /\ \A j \in 1..Len(lookups) : lookup_results[j] = "metadata" )
        => /\ Len(result_queue) = Len(list)
           /\ \A k \in 1..Len(result_queue) : result_queue[k].source_relevance = k - 1
           /\ \A j, k \in 1..Len(lookups) :
                  j # k => urls[lookups[j] + 1] # urls[lookups[k] + 1]

\* C4: no call raises to its caller.
C4_NeverRaises == pc # "raised" /\ exception = ""

\* C5: with more than one candidate URL, each record's source_relevance is
\* the 0-based position of its URL among the candidates, the ranks grow
\* strictly in emission order and isbn is the record's own store identifier;
\* with exactly one candidate isbn is not set.
C5_RankIsPosition ==
    \A k \in 1..Len(result_queue) :
        LET r == result_queue[k]
        IN  /\ Len(urls) # 1 =>
                /\ r.source_relevance < Len(urls)
                /\ urls[r.source_relevance + 1] = emitted_urls[k]
                /\ k > 1 => result_queue[k - 1].source_relevance < r.source_relevance
                /\ r.isbn = r.identifiers.dlsite
            /\ Len(urls) = 1 => r.isbn = None

\* C5 witness: three candidates, the first gave no record, the other two did
C5_Witness ==
    /\ Len(urls) = 3
    /\ Len(result_queue) = 2
    /\ result_queue[1].source_relevance = 1
    /\ result_queue[2].source_relevance = 2

\* the search was redirected straight to a product page
RedirectFlow == search_urls # <<>> /\ fetch_kinds[1] = "product"

\* C6: a search redirected to a product page has exactly one candidate, runs
\* exactly one extraction, and a record emitted has source_relevance 0.
C6_RedirectOneCandidate ==
    RedirectFlow =>
        /\ Len(urls) = 1
        /\ Len(lookups) <= 1
        /\ pc = "done" => Len(lookups) = 1
        /\ Len(result_queue) <= 1
        /\ \A k \in 1..Len(result_queue) : result_queue[k].source_relevance = 0

\* C6 witness: a redirected search is over and gave a record
C6_Witness == RedirectFlow /\ pc = "done" /\ Len(result_queue) = 1

\* the identifier holds none of the characters the extraction cuts at
DelimiterFree(id) == \A k \in 1..Len(id) : id[k] \notin {"/", ".", "?"}

\* C7 as claimed: for every identifier I and locale L, the identifier
\* extracted from the product URL built from I and L is I.
C7_RoundTrip == ret.kind = "parsed" => ret.id = arg.dlsite

\* C7 as amended: the round trip yields I for every identifier I that holds
\* none of '/', '.', '?', and every locale L.
C7_RoundTripDelimiterFree ==
    (ret.kind = "parsed" /\ DelimiterFree(arg.dlsite)) => ret.id = arg.dlsite

\* C7 witness: a delimiter-free identifier of several characters went round
C7_Witness ==
    /\ ret.kind = "parsed"
    /\ DelimiterFree(arg.dlsite)
    /\ Len(arg.dlsite) > 1
    /\ prefs.country = <<"vi_VN">>

\* the whitespace tokens of a title argument (none for None)
ArgTokens(t) == IF t = None THEN <<>> ELSE SplitBlank(t)

\* a title token as the flag makes it
Stripped(token, flag) == IF flag THEN LStrip(token, {"0"}) ELSE token

RECURSIVE Flatten(_)
\* the concatenation of a list of lists
Flatten(lists) ==
    IF lists = <<>> THEN <<>> ELSE Head(lists) \o Flatten(Tail(lists))

\* C8 as claimed: the query has as many whitespace tokens as the title has
\* plus one per author, and each title token appears with its leading zeroes
\* removed iff the flag is set.
C8_TokenCount ==
    ret.kind = "query" =>
        LET tokens == ArgTokens(arg.title)
            out    == SplitBlank(ret.query)
        IN  /\ Len(out) = Len(tokens) + Len(arg.authors)
            /\ \A k \in 1..Len(tokens) :
                   out[k] = Stripped(tokens[k], prefs.remove_leading_zeroes)

\* C8 as amended: the whitespace tokens of the query are the title's tokens,
\* each with its leading zeroes removed iff the flag is set and dropped when
\* nothing is left of it, followed by the whitespace tokens of each author
\* name in order.
C8_QueryTokens ==
    ret.kind = "query" =>
        LET tokens == ArgTokens(arg.title)
            kept   == [k \in 1..Len(tokens) |->
                         Stripped(tokens[k], prefs.remove_leading_zeroes)]
            names  == [k \in 1..Len(arg.authors) |-> SplitBlank(arg.authors[k])]
        IN  SplitBlank(ret.query)
              = SelectSeq(kept, LAMBDA x : x # <<>>) \o Flatten(names)

\* C8 witness: the flag is set, the title holds a token of zeroes only and a
\* token with a leading zero, an author name holds a space
C8_Witness ==
    /\ ret.kind = "query"
    /\ prefs.remove_leading_zeroes
    /\ arg.title = <<"0", " ", "0", "7">>
    /\ arg.authors = << <<"J">>, <<"K", " ", "S">> >>

\* C9: a page whose title holds a blacklisted word, compared without case and
\* punctuation and split at any whitespace, gives no record.
C9_BlacklistedTitleRejected ==
    ( /\ ret.kind = "extracted"
      /\ TitleWords(arg.title) \cap BlacklistSet(prefs.title_blacklist) # {} )
    => ret.result # "metadata"

\* C10 as claimed: a candidate whose fetch failed or whose extraction raised
\* is the last one fetched.
C10_FailureAborts ==
    \A j \in 1..Len(lookups) :
        (LookupFetchKind(j) = "error" \/ lookup_results[j] = "raise")
            => j = Len(lookups)

\* C10 as amended: an exception raised while the fields of a fetched candidate
\* page are read ends identify at once, with no later candidate fetched and
\* the records emitted so far on the sink; a candidate whose fetch failed,
\* which came back as a search page or which a blacklist rejected is skipped
\* and the remaining candidates are still extracted.
C10_ExceptionAborts ==
    /\ \A j \in 1..Len(lookups) :
           lookup_results[j] = "raise"
               => j = Len(lookups) /\ aborted /\ pc = "done" /\ index = lookups[j]
    /\ aborted => lookup_results # <<>> /\ lookup_results[Len(lookups)] = "raise"
    /\ (pc = "done" /\ ~aborted) => Len(lookups) = Len(urls)
    /\ \A j \in 1..Len(lookups) : lookups[j] = j - 1
    /\ Len(result_queue) = CountOf(lookup_results, "metadata")

\* C10 witness: the first candidate's fetch failed, the second was still
\* extracted and raised, and the third was never fetched
C10_Witness ==
    /\ aborted
    /\ Len(urls) = 3
    /\ Len(lookups) = 2
    /\ LookupFetchKind(1) = "error"

-----------------------------------------------------------------------------
(* C11: download_cover *)

\* download_cover is over and resolved no cover URL
Unresolved == dc = "done" /\ ~Truthy(cover_url)

\* C11: download_cover puts at most one item on its result sink; it puts none
\* when no cover URL is resolved or when the image fetch fails; and when no
\* cover URL is resolved it attempts no image fetch at all.
C11_CoverOrNothing ==
    /\ Len(cover_sink) <= 1
    /\ Unresolved => cover_sink = <<>> /\ image_fetches = <<>>
    /\ (\E k \in 1..Len(image_fetches) : image_fetches[k].result = "error")
         => cover_sink = <<>>

\* the part of C11 about the sink alone: at most one item, and none without a
\* resolved cover URL or after a failed image fetch
CoverSinkOnly ==
    /\ Len(cover_sink) <= 1
    /\ Unresolved => cover_sink = <<>>
    /\ (\E k \in 1..Len(image_fetches) : image_fetches[k].result = "error")
         => cover_sink = <<>>

\* a cover was put on the sink after a cache hit
CoverSinkHit == dc = "done" /\ Len(cover_sink) = 1

\* the internal identify gave a record whose cover URL is cached under the
\* record's store identifier, and download_cover resolved none
CoverLostAfterIdentify ==
    /\ Unresolved
    /\ result_queue # <<>>
    /\ Truthy(CacheGet(cover_cache, Head(result_queue).identifiers.dlsite))

-----------------------------------------------------------------------------
(* C12: the store identifier of a record *)

\* C12: in every flow of identify, the store identifier of each emitted
\* record, and the key under which its cover URL is cached, is the product
\* identifier of the catalog entry whose page the record was extracted from;
\* so two records of different catalog entries never share a store identifier.
C12_IdentifierOfPage ==
    /\ \A k \in 1..Len(result_queue) :
         /\ result_queue[k].identifiers.dlsite = emitted_pages[k].product_id
         /\ emitted_pages[k].cover =>
              Truthy(CacheGet(cover_cache, emitted_pages[k].product_id))
    /\ \A j, k \in 1..Len(result_queue) :
         emitted_pages[j].product_id # emitted_pages[k].product_id
           => result_queue[j].identifiers.dlsite
                # result_queue[k].identifiers.dlsite

\* the part of C12 outside the redirect flow: known identifier and listed
\* search results
IdentifierOfPageUnlessRedirected == RedirectFlow \/ C12_IdentifierOfPage

\* a redirected search gave a record of the entry RJ02 under the identifier
\* cut from the search URL
RedirectedIdentifier ==
    /\ RedirectFlow
    /\ Len(result_queue) = 1
    /\ emitted_pages[1].product_id = <<"RJ", "0", "2">>
    /\ result_queue[1].identifiers.dlsite = ExtractIdentifier(search_urls[1])


=============================================================================
